---- MODULE Spec2Model ----
(***************************************************************************)
(* Model of pi-netboot-server:                                             *)
(*  - the imaging agent (src/pi-service/netboot-imager-service.py): one    *)
(*    single-threaded HTTPServer, one process-wide progress record, and    *)
(*    the write-image handler with its chain of subprocesses;              *)
(*  - the fleet console's boot-history bookkeeping (src/webui/app.py,      *)
(*    parse_boot_events);                                                  *)
(*  - the fleet console's image catalog (src/webui/app.py): upload and     *)
(*    import, activate_image, write_to_disk and download_image.            *)
(***************************************************************************)
EXTENDS Integers, Sequences, FiniteSets, TLC

VARIABLES
    config,          \* agent: the configuration loaded at start-up
    write_progress,  \* agent: the global progress record (stage, percent, message, error)
    pc,              \* agent: where the single server thread is
    req,             \* agent: the request being handled (or the last one handled)
    sent,            \* agent: the send_json calls made for req, in order
    procs,           \* agent: the subprocesses run for req, in order, with their outcomes
    connected,       \* agent: whether the caller of req still holds its connection
    backlog,         \* agent: the status poll queued on the listening socket, if any
    clock,           \* console: wall clock, [year, sec] (sec = second of the year)
    log,             \* console: the lines of the dnsmasq log, oldest first
    history_file,    \* console: the content of /tmp/boot-history.json
    runs,            \* console: the parse_boot_events calls in progress
    fresh,           \* console: no line was logged since a parse_boot_events call read the log
    images,          \* console: what each directory under /images holds
    active_link,     \* console: the image /images/active-rootfs points into, or NoName
    act,             \* console: the activate requests in progress, per thread
    wd               \* console: the write started through write-disk, and its download

agentVars == <<config, write_progress, pc, req, sent, procs, connected, backlog>>
consoleVars == <<clock, log, history_file, runs, fresh>>
catalogVars == <<images, active_link, act, wd>>
vars == <<config, write_progress, pc, req, sent, procs, connected, backlog,
          clock, log, history_file, runs, fresh, images, active_link, act, wd>>

None == "None"

(***************************************************************************)
(* Strings that the code inspects character by character are sequences of  *)
(* one-character strings.                                                  *)
(***************************************************************************)
Digit(d) == CASE d = 0 -> "0" [] d = 1 -> "1" [] d = 2 -> "2" [] d = 3 -> "3"
              [] d = 4 -> "4" [] d = 5 -> "5" [] d = 6 -> "6" [] d = 7 -> "7"
              [] d = 8 -> "8" [] d = 9 -> "9"

RECURSIVE DecStr(_)
DecStr(n) == IF n < 10 THEN <<Digit(n)>> ELSE DecStr(n \div 10) \o <<Digit(n % 10)>>

\* the dotted-quad text of an address given as four octets
DottedQuad(o) == DecStr(o[1]) \o <<".">> \o DecStr(o[2]) \o <<".">> \o DecStr(o[3])
                 \o <<".">> \o DecStr(o[4])

\* an allow-list entry "a.b.c.d/len"
CidrText(o, len) == DottedQuad(o) \o <<"/">> \o DecStr(len)

\* str.startswith
StartsWith(s, p) == /\ Len(p) <= Len(s)
                    /\ SubSeq(s, 1, Len(p)) = p

\* c in s
Contains(s, c) == \E i \in 1..Len(s) : s[i] = c

\* s.split(c)[0]: the text before the first c (all of s when c does not occur)
SplitFirst(s, c) ==
    IF Contains(s, c)
    THEN SubSeq(s, 1, (CHOOSE i \in 1..Len(s) :
                          s[i] = c /\ \A j \in 1..(i - 1) : s[j] # c) - 1)
    ELSE s

\* s.rsplit(c, 1)[0]: the text before the last c (all of s when c does not occur)
RSplitFirst(s, c) ==
    IF Contains(s, c)
    THEN SubSeq(s, 1, (CHOOSE i \in 1..Len(s) :
                          s[i] = c /\ \A j \in (i + 1)..Len(s) : s[j] # c) - 1)
    ELSE s

(***************************************************************************)
(* Agent configuration.                                                    *)
(***************************************************************************)
SharedSecret == "openseastack-netboot-2024"

\* the built-in configuration of load_config
DefaultConfig ==
    [allowed_ips |-> << DottedQuad(<<10, 10, 200, 75>>),
                        CidrText(<<10, 10, 200, 0>>, 24) >>,
     shared_secret |-> SharedSecret]

\* a config.json that allow-lists one other /24
FileConfig ==
    [allowed_ips |-> << CidrText(<<10, 10, 20, 0>>, 24) >>,
     shared_secret |-> SharedSecret]

Configs == {DefaultConfig, FileConfig}

validate_ip(client_ip) ==
    \E i \in 1..Len(config.allowed_ips) :
        LET allowed_pattern == config.allowed_ips[i] IN
        IF Contains(allowed_pattern, "/")
        THEN LET network == RSplitFirst(SplitFirst(allowed_pattern, "/"), ".")
             IN  StartsWith(client_ip, network)
        ELSE client_ip = allowed_pattern

(***************************************************************************)
(* Requests.  JSON values the handler looks at are tagged by their type.   *)
(***************************************************************************)
GzUrl == <<"h","t","t","p",":","/","/","x","/","i","m","g",".","g","z">>
RawUrl == <<"h","t","t","p",":","/","/","x","/","i","m","g">>

Absent == [t |-> "absent"]
JsonNull == [t |-> "null"]
JsonStr(v) == [t |-> "str", v |-> v]
JsonInt(v) == [t |-> "int", v |-> v]

valid_devices == <<"/dev/mmcblk0", "/dev/mmcblk1", "/dev/nvme0n1", "/dev/sda">>

\* the device values a body may carry
DeviceValues == {Absent, JsonNull, JsonStr("/dev/sda"), JsonStr("/dev/sdb")}

\* the image_url values a body may carry
UrlValues == {Absent, JsonStr(<<>>), JsonStr(GzUrl), JsonStr(RawUrl), JsonInt(7)}

\* request bodies: undecodable text, JSON that is no object, or an object
Bodies == {[kind |-> "badjson", device |-> Absent, image_url |-> Absent],
           [kind |-> "nondict", device |-> Absent, image_url |-> Absent]}
          \cup {[kind |-> "dict", device |-> d, image_url |-> u] :
                    d \in DeviceValues, u \in UrlValues}

ClientIps == {DottedQuad(<<10, 10, 200, 75>>), DottedQuad(<<10, 10, 200, 5>>),
              DottedQuad(<<192, 168, 1, 9>>)}

Tokens == {None, SharedSecret, "wrong-token"}

NoBody == [kind |-> "none", device |-> Absent, image_url |-> Absent]

NoRequest == [method |-> "none", path |-> "", client_ip |-> <<>>, token |-> None,
              body |-> NoBody]

WriteRequests == [method : {"POST"}, path : {"/write-image"}, client_ip : ClientIps,
                  token : Tokens, body : Bodies]

OtherRequests == [method : {"GET"}, path : {"/health", "/status", "/other"},
                  client_ip : ClientIps, token : {None}, body : {NoBody}]
                 \cup [method : {"POST"}, path : {"/other"}, client_ip : ClientIps,
                       token : {None}, body : {NoBody}]

(***************************************************************************)
(* Allow-lists a config.json may give, and the callers tried against them. *)
(* An entry is kept with its octets and prefix length; the configuration   *)
(* holds its text, as config['allowed_ips'] does.                          *)
(***************************************************************************)
ExactEntry(o) == [cidr |-> FALSE, octets |-> o, len |-> 32]
CidrEntry(o, len) == [cidr |-> TRUE, octets |-> o, len |-> len]

AclEntries == {ExactEntry(<<10, 10, 200, 75>>),
               CidrEntry(<<10, 10, 200, 0>>, 24),
               CidrEntry(<<10, 10, 20, 0>>, 24),
               CidrEntry(<<10, 10, 2, 0>>, 24),
               CidrEntry(<<192, 168, 1, 0>>, 24),
               CidrEntry(<<10, 10, 200, 0>>, 25),
               CidrEntry(<<10, 10, 200, 128>>, 25),
               CidrEntry(<<10, 10, 200, 64>>, 26),
               CidrEntry(<<10, 10, 200, 75>>, 32),
               CidrEntry(<<10, 10, 0, 0>>, 16),
               CidrEntry(<<10, 0, 0, 0>>, 8),
               CidrEntry(<<0, 0, 0, 0>>, 0)}

EntryText(e) == IF e.cidr THEN CidrText(e.octets, e.len) ELSE DottedQuad(e.octets)

AclConfigs == {[allowed_ips |-> <<EntryText(e)>>, shared_secret |-> SharedSecret] :
                  e \in AclEntries}
              \cup {DefaultConfig}

AclCallers == {<<10, 10, 200, 75>>, <<10, 10, 200, 5>>, <<10, 10, 200, 200>>,
               <<10, 10, 20, 7>>, <<10, 10, 201, 1>>, <<10, 10, 2, 5>>,
               <<10, 11, 0, 1>>, <<10, 10, 7, 7>>, <<192, 168, 1, 9>>}

\* write requests from those callers; without the token they end at the two
\* checks at the head of handle_write_image
AclRequests == [method : {"POST"}, path : {"/write-image"},
                client_ip : {DottedQuad(o) : o \in AclCallers},
                token : {None}, body : {NoBody}]

(***************************************************************************)
(* The progress record and update_progress.                                *)
(***************************************************************************)
Progress(stage, percent, message, error) ==
    [stage |-> stage, percent |-> percent, message |-> message, error |-> error]

InitialProgress == Progress("idle", 0, <<>>, None)

\* error is written only when one is given
update_progress_sticky(stage, percent, message, error) ==
    write_progress' = Progress(stage, percent, message,
                               IF error = None THEN write_progress.error ELSE error)

\* update_progress(stage, percent, message, error=None): all four fields are set
update_progress(stage, percent, message, error) ==
    write_progress' = Progress(stage, percent, message, error)

(***************************************************************************)
(* send_json.  A write to a connection the caller has dropped may raise    *)
(* (BrokenPipeError) or may still be accepted by the kernel.               *)
(***************************************************************************)
SendOutcomes == IF connected THEN {TRUE} ELSE {TRUE, FALSE}

Response(status, body, ok) == [status |-> status, body |-> body, delivered |-> ok]

ErrorBody(text) == [kind |-> "error", text |-> text]

BrokenPipe == "[Errno 32] Broken pipe"

\* the generic handler: except Exception as e (lines 224-227), entered with the
\* responses already attempted for this request
ExceptException(sentSoFar, text) ==
    /\ update_progress("error", 0, <<"Error: ", text>>, text)
    /\ \E ok \in (IF \E i \in 1..Len(sentSoFar) : ~sentSoFar[i].delivered
                  THEN {FALSE} ELSE SendOutcomes) :
          sent' = Append(sentSoFar, Response(500, ErrorBody(text), ok))
    /\ pc' = "serve"

\* a timeout handled by the generic handler
ExceptTimeout_generic ==
    ExceptException(sent, "Command timed out after 600 seconds")

\* except subprocess.TimeoutExpired (lines 221-223)
ExceptTimeout ==
    /\ update_progress("error", 0, <<"Write operation timed out">>,
                       "Timeout after 10 minutes")
    /\ \E ok \in SendOutcomes :
          sent' = Append(sent, Response(504,
                      ErrorBody("Write operation timed out after 10 minutes"), ok))
    /\ pc' = "serve"

\* one subprocess.run call, recorded with its outcome
Ran(cmd, outcome) == procs' = Append(procs, [cmd |-> cmd, outcome |-> outcome])

(***************************************************************************)
(* The agent's server loop: HTTPServer.serve_forever handles one request   *)
(* at a time on one thread; pc = "serve" is the loop waiting for the next  *)
(* request, any other value a position inside handle_write_image.          *)
(***************************************************************************)
Truthy(u) == \/ u.t = "str" /\ u.v # <<>>
             \/ u.t = "int" /\ u.v # 0

\* data.get('device', '/dev/mmcblk0')
Device(r) == CASE r.body.device.t = "absent" -> "/dev/mmcblk0"
               [] r.body.device.t = "str" -> r.body.device.v
               [] OTHER -> None

\* any device path given as a string is taken
DeviceValid_anypath(device) == device # None

DeviceValid(device) == \E i \in 1..Len(valid_devices) : valid_devices[i] = device

\* the token comparison left out
TokenOk_unchecked(token) == TRUE

TokenOk(token) == token = config.shared_secret

\* s.endswith(suffix)
EndsWith(s, suffix) == /\ Len(suffix) <= Len(s)
                       /\ SubSeq(s, Len(s) - Len(suffix) + 1, Len(s)) = suffix

\* the writing and syncing stages exchanged
StageOf_swapped(step) == CASE step = "reset" -> "wiping"
                           [] step = "wipe" -> "wiping"
                           [] step = "write" -> "syncing"
                           [] step = "sync" -> "writing"
                           [] step = "done" -> "complete"

\* the percentages of writing and syncing exchanged
PercentOf_swapped(step) == CASE step = "reset" -> 0
                             [] step = "wipe" -> 5
                             [] step = "write" -> 95
                             [] step = "sync" -> 10
                             [] step = "done" -> 100

\* the stage and the percent of each update_progress call of a successful write
StageOf(step) == CASE step = "reset" -> "wiping"
                   [] step = "wipe" -> "wiping"
                   [] step = "write" -> "writing"
                   [] step = "sync" -> "syncing"
                   [] step = "done" -> "complete"

PercentOf(step) == CASE step = "reset" -> 0
                     [] step = "wipe" -> 5
                     [] step = "write" -> 10
                     [] step = "sync" -> 95
                     [] step = "done" -> 100

\* connections are taken from the listening socket in the order they arrived
Accept(r) == /\ pc = "serve"
             /\ backlog.at # "waiting"
             /\ backlog' = backlog
             /\ req' = r
             /\ connected' = TRUE
             /\ procs' = <<>>

\* a reply that also puts the progress record back to idle
Reply_resetting(status, body) == /\ sent' = <<Response(status, body, TRUE)>>
                                 /\ pc' = "serve"
                                 /\ write_progress' = InitialProgress

Reply(status, body) == /\ sent' = <<Response(status, body, TRUE)>>
                       /\ pc' = "serve"
                       /\ UNCHANGED write_progress

\* do_GET
DoGet(r) ==
    /\ r.method = "GET"
    /\ Accept(r)
    /\ CASE r.path = "/health" -> Reply(200, [kind |-> "health"])
         [] r.path = "/status" ->
                Reply(200, [kind |-> "status", stage |-> write_progress.stage,
                            percent |-> write_progress.percent,
                            message |-> write_progress.message,
                            error |-> write_progress.error])
         [] OTHER -> Reply(404, ErrorBody("Not found"))
    /\ UNCHANGED <<config, consoleVars, catalogVars>>

NoPoll == [at |-> "none", stage |-> None, percent |-> 0]

\* a GET /status sent while the handler is busy: the connection is completed
\* by the kernel and waits on the listening socket
Poll ==
    /\ pc # "serve"
    /\ backlog.at # "waiting"
    /\ backlog' = [NoPoll EXCEPT !.at = "waiting"]
    /\ UNCHANGED <<config, write_progress, pc, req, sent, procs, connected,
                   consoleVars, catalogVars>>

\* serve_forever comes back to accept and takes the waiting GET /status; what
\* it is answered is kept in backlog
ServeWaiting(r) ==
    /\ r.method = "GET" /\ r.path = "/status"
    /\ pc = "serve"
    /\ backlog.at = "waiting"
    /\ backlog' = [at |-> "answered", stage |-> write_progress.stage,
                   percent |-> write_progress.percent]
    /\ req' = r
    /\ connected' = TRUE
    /\ procs' = <<>>
    /\ Reply(200, [kind |-> "status", stage |-> write_progress.stage,
                   percent |-> write_progress.percent,
                   message |-> write_progress.message,
                   error |-> write_progress.error])
    /\ UNCHANGED <<config, consoleVars, catalogVars>>

\* do_POST on a path other than /write-image
DoPostOther(r) ==
    /\ r.method = "POST" /\ r.path # "/write-image"
    /\ Accept(r)
    /\ Reply(404, ErrorBody("Not found"))
    /\ UNCHANGED <<config, consoleVars, catalogVars>>

\* handle_write_image from its entry to the first update_progress
WriteImage(r) ==
    /\ r.method = "POST" /\ r.path = "/write-image"
    /\ Accept(r)
    /\ IF ~validate_ip(r.client_ip)
         THEN Reply(403, ErrorBody("Unauthorized IP"))
       ELSE IF ~TokenOk(r.token)
         THEN Reply(403, ErrorBody("Invalid token"))
       ELSE IF r.body.kind = "badjson"
         THEN Reply(400, ErrorBody("Invalid JSON"))
       ELSE IF r.body.kind = "nondict"
         \* data.get raises AttributeError outside the try: the handler dies
         \* and the connection is closed without a response
         THEN /\ sent' = <<>>
              /\ pc' = "serve"
              /\ UNCHANGED write_progress
       ELSE IF ~Truthy(r.body.image_url)
         THEN Reply(400, ErrorBody("image_url required"))
       ELSE IF ~DeviceValid(Device(r))
         THEN Reply(400, ErrorBody("Invalid device"))
       ELSE /\ update_progress(StageOf("reset"), PercentOf("reset"),
                               <<"Preparing to write image to ", Device(r)>>, None)
            /\ sent' = <<>>
            /\ pc' = "wipe"
    /\ UNCHANGED <<config, consoleVars, catalogVars>>

\* the caller gives up (its own timeout, or it goes away) while the handler runs
HangUp ==
    /\ pc # "serve"
    /\ connected
    /\ connected' = FALSE
    /\ UNCHANGED <<config, backlog, write_progress, pc, req, sent, procs, consoleVars, catalogVars>>

StepWipe ==
    /\ pc = "wipe"
    /\ update_progress(StageOf("wipe"), PercentOf("wipe"),
                       <<"Wiping partition table on ", Device(req)>>, None)
    /\ pc' = "wipefs"
    /\ UNCHANGED <<config, backlog, req, sent, procs, connected, consoleVars, catalogVars>>

\* subprocess.run(['wipefs', '-a', device], timeout=30)
RunWipefs ==
    /\ pc = "wipefs"
    /\ \E out \in {"ok", "nonzero", "notfound", "timeout"} :
          /\ Ran("wipefs", out)
          /\ CASE out = "ok" ->
                    pc' = "partprobe" /\ UNCHANGED <<write_progress, sent>>
               [] out = "timeout" -> ExceptTimeout
               [] OTHER ->
                    pc' = "ddzero" /\ UNCHANGED <<write_progress, sent>>
    /\ UNCHANGED <<config, backlog, req, connected, consoleVars, catalogVars>>

\* the fallback with its exit code checked: a non-zero exit ends the attempt
RunDdZero_checked ==
    /\ pc = "ddzero"
    /\ \E out \in {"ok", "nonzero", "timeout"} :
          /\ Ran("dd_zero", out)
          /\ CASE out = "timeout" -> ExceptTimeout
               [] out = "nonzero" -> ExceptException(sent, "dd: non-zero exit")
               [] OTHER -> pc' = "partprobe" /\ UNCHANGED <<write_progress, sent>>
    /\ UNCHANGED <<config, backlog, req, connected, consoleVars, catalogVars>>

\* the fallback: dd if=/dev/zero of=device bs=1M count=10, exit code not looked at
RunDdZero ==
    /\ pc = "ddzero"
    /\ \E out \in {"ok", "nonzero", "timeout"} :
          /\ Ran("dd_zero", out)
          /\ IF out = "timeout"
               THEN ExceptTimeout
               ELSE pc' = "partprobe" /\ UNCHANGED <<write_progress, sent>>
    /\ UNCHANGED <<config, backlog, req, connected, consoleVars, catalogVars>>

\* partprobe, then blockdev --rereadpt, each under a bare except: the call either
\* returns (its exit code is not looked at) or raises (tool missing, or timeout)
RunPartprobe ==
    /\ pc = "partprobe"
    /\ \E out \in {"returned", "raised"} :
          /\ Ran("partprobe", out)
          /\ pc' = IF out = "returned" THEN "write" ELSE "blockdev"
    /\ UNCHANGED <<config, backlog, write_progress, req, sent, connected, consoleVars, catalogVars>>

RunBlockdev ==
    /\ pc = "blockdev"
    /\ \E out \in {"returned", "raised"} :
          /\ Ran("blockdev", out)
          /\ pc' = IF out = "returned" THEN "write" ELSE "syncpt"
    /\ UNCHANGED <<config, backlog, write_progress, req, sent, connected, consoleVars, catalogVars>>

\* the last resort of the re-read chain: subprocess.run(['sync'], timeout=5),
\* inside the outer try only
RunSyncPt ==
    /\ pc = "syncpt"
    /\ \E out \in {"returned", "notfound", "timeout"} :
          /\ Ran("sync_pt", out)
          /\ CASE out = "timeout" -> ExceptTimeout
               [] out = "notfound" ->
                    ExceptException(sent, "[Errno 2] No such file or directory: 'sync'")
               [] OTHER -> pc' = "write" /\ UNCHANGED <<write_progress, sent>>
    /\ UNCHANGED <<config, backlog, req, connected, consoleVars, catalogVars>>

StepWrite ==
    /\ pc = "write"
    /\ update_progress(StageOf("write"), PercentOf("write"),
                       <<"Partition table wiped, downloading and writing image...">>, None)
    /\ pc' = "dd"
    /\ UNCHANGED <<config, backlog, req, sent, procs, connected, consoleVars, catalogVars>>

\* the command line built from image_url
WriteCmd(image_url) == IF EndsWith(image_url, <<".", "g", "z">>)
                       THEN "curl | gunzip | dd" ELSE "curl | dd"

DdStderr == "dd: stderr"

\* image_url.endswith, then subprocess.run(cmd, shell=True, timeout=600) and the
\* branch on its return code
RunDd ==
    /\ pc = "dd"
    /\ IF req.body.image_url.t # "str"
         THEN /\ ExceptException(sent, "'int' object has no attribute 'endswith'")
              /\ UNCHANGED procs
         ELSE \E out \in {"ok", "nonzero", "timeout"} :
                /\ Ran(WriteCmd(req.body.image_url.v), out)
                /\ CASE out = "ok" ->
                          /\ update_progress(StageOf("sync"), PercentOf("sync"),
                                 <<"Image written, synchronizing filesystem...">>, None)
                          /\ pc' = "sync"
                          /\ UNCHANGED sent
                     [] out = "timeout" -> ExceptTimeout
                     [] OTHER ->
                          \E ok \in SendOutcomes :
                            IF ok
                            THEN /\ update_progress("error", 0, <<"Write failed">>, DdStderr)
                                 /\ sent' = Append(sent, Response(500, ErrorBody(DdStderr), TRUE))
                                 /\ pc' = "serve"
                            ELSE ExceptException(
                                   Append(sent, Response(500, ErrorBody(DdStderr), FALSE)),
                                   BrokenPipe)
    /\ UNCHANGED <<config, backlog, req, connected, consoleVars, catalogVars>>

\* subprocess.run(['sync'], check=True), then the completion update
RunSync ==
    /\ pc = "sync"
    /\ \E out \in {"ok", "nonzero", "notfound"} :
          /\ Ran("sync", out)
          /\ CASE out = "ok" ->
                    /\ update_progress(StageOf("done"), PercentOf("done"),
                           <<"Image successfully written to ", Device(req)>>, None)
                    /\ pc' = "respond"
                    /\ UNCHANGED sent
               [] out = "nonzero" ->
                    ExceptException(sent,
                        "Command '['sync']' returned non-zero exit status 1.")
               [] OTHER ->
                    ExceptException(sent, "[Errno 2] No such file or directory: 'sync'")
    /\ UNCHANGED <<config, backlog, req, connected, consoleVars, catalogVars>>

SuccessBody == [kind |-> "success", success |-> TRUE]

\* the success response, still inside the try
Respond ==
    /\ pc = "respond"
    /\ \E ok \in SendOutcomes :
          IF ok
          THEN /\ sent' = Append(sent, Response(200, SuccessBody, TRUE))
               /\ pc' = "serve"
               /\ UNCHANGED write_progress
          ELSE ExceptException(Append(sent, Response(200, SuccessBody, FALSE)), BrokenPipe)
    /\ UNCHANGED <<config, backlog, req, procs, connected, consoleVars, catalogVars>>

(***************************************************************************)
(* The console's boot history (src/webui/app.py).                          *)
(*                                                                         *)
(* Time is counted in seconds.  clock is the wall clock as an absolute     *)
(* number of seconds; a log line carries only month, day and time of day,  *)
(* that is the second of the year (stamp), and the parser supplies the     *)
(* year from the clock at the moment it runs.  Each line also remembers    *)
(* the absolute time it was written at (at), which no code reads.          *)
(***************************************************************************)
MaxLog == 3        \* lines written to the log
MaxYear == 1       \* the clock stops at the end of this year
NumThreads == 2    \* console requests running parse_boot_events at once

SecondsPerYear == 365 * 24 * 60 * 60

TailLines == 500
DebounceSeconds == 120
CorrelateSeconds == 30

Macs == {"2c:cf:67:7c:d4:67", "2c:cf:67:00:00:01"}
Ips == {"10.10.200.180", "10.10.200.181"}
Gaps == {15, 16, 105}
Threads == 1..NumThreads

\* the console is started ten minutes before the end of year 0
StartClock == SecondsPerYear - 10 * 60

YearOf(t) == t \div SecondsPerYear
StampOf(t) == t % SecondsPerYear

PxeLine(t, mac) == [kind |-> "pxe", stamp |-> StampOf(t), mac |-> mac, ip |-> None, at |-> t]
TftpLine(t, ip) == [kind |-> "tftp", stamp |-> StampOf(t), mac |-> None, ip |-> ip, at |-> t]

\* tail -n 500
LastLines(lines) == IF Len(lines) <= TailLines THEN lines
               ELSE SubSeq(lines, Len(lines) - TailLines + 1, Len(lines))

\* datetime.strptime(f"{current_year} {timestamp_str}", "%Y %b %d %H:%M:%S")
ParseStamp(stamp, now) == YearOf(now) * SecondsPerYear + stamp

\* boot_time.isoformat() and datetime.fromisoformat()
IsoFormat(t) == [year |-> YearOf(t), second |-> StampOf(t)]
FromIsoFormat(iso) == iso.year * SecondsPerYear + iso.second

NoEntry == [present |-> FALSE, last_boot |-> IsoFormat(0), boot_count |-> 0, last_ip |-> None]

EmptyHistory == [m \in Macs |-> NoEntry]

\* the two lists built from the lines, in log order
BootEvents(lines, now) ==
    LET idx == {i \in 1..Len(lines) : lines[i].kind = "pxe"}
        nth[k \in 0..Cardinality(idx)] ==
            IF k = 0 THEN <<>>
            ELSE LET i == CHOOSE i \in idx : Cardinality({j \in idx : j < i}) = k - 1
                 IN  Append(nth[k - 1], [time |-> ParseStamp(lines[i].stamp, now),
                                         mac |-> lines[i].mac])
    IN  nth[Cardinality(idx)]

TftpTransfers(lines, now) ==
    LET idx == {i \in 1..Len(lines) : lines[i].kind = "tftp"}
        nth[k \in 0..Cardinality(idx)] ==
            IF k = 0 THEN <<>>
            ELSE LET i == CHOOSE i \in idx : Cardinality({j \in idx : j < i}) = k - 1
                 IN  Append(nth[k - 1], [time |-> ParseStamp(lines[i].stamp, now),
                                         ip |-> lines[i].ip])
    IN  nth[Cardinality(idx)]

\* the test that the transfer is not before the boot left out
MatchingIp_unordered(boot_time, tftp_transfers) ==
    LET hits == {i \in 1..Len(tftp_transfers) :
                    tftp_transfers[i].time - boot_time <= CorrelateSeconds}
    IN  IF hits = {} THEN None
        ELSE tftp_transfers[CHOOSE i \in hits : \A j \in hits : i <= j].ip

\* the first transfer within 30 seconds after the boot, or None
MatchingIp(boot_time, tftp_transfers) ==
    LET hits == {i \in 1..Len(tftp_transfers) :
                    /\ 0 <= tftp_transfers[i].time - boot_time
                    /\ tftp_transfers[i].time - boot_time <= CorrelateSeconds}
    IN  IF hits = {} THEN None
        ELSE tftp_transfers[CHOOSE i \in hits : \A j \in hits : i <= j].ip

\* the debounce test of one PXE event against the recorded last boot
IsNewBoot(boot_time, last_boot) == boot_time - last_boot > DebounceSeconds

\* the body of the loop over boot_events, for one event
UpdateEntry(history, boot, tftp_transfers) ==
    LET mac == boot.mac
        matching_ip == MatchingIp(boot.time, tftp_transfers)
        timestamp_iso == IsoFormat(boot.time)
    IN  IF ~history[mac].present
        THEN [history EXCEPT ![mac] = [present |-> TRUE, last_boot |-> timestamp_iso,
                                       boot_count |-> 1, last_ip |-> matching_ip]]
        ELSE IF IsNewBoot(boot.time, FromIsoFormat(history[mac].last_boot))
        THEN [history EXCEPT ![mac] =
                 [present |-> TRUE, last_boot |-> timestamp_iso,
                  boot_count |-> history[mac].boot_count + 1,
                  last_ip |-> IF matching_ip # None THEN matching_ip
                              ELSE history[mac].last_ip]]
        ELSE history

RECURSIVE Correlate(_, _, _)
Correlate(history, boot_events, tftp_transfers) ==
    IF boot_events = <<>> THEN history
    ELSE Correlate(UpdateEntry(history, Head(boot_events), tftp_transfers),
                   Tail(boot_events), tftp_transfers)

\* what parse_boot_events computes from the history it loaded and the lines it read
ParsedHistory(history, lines, now) ==
    Correlate(history, BootEvents(lines, now), TftpTransfers(lines, now))

IdleRun == [at |-> "idle", history |-> EmptyHistory, again |-> FALSE]

\* dnsmasq writes a PXE or a TFTP line, some seconds after the previous one
LogPxe(gap, mac) ==
    /\ Len(log) < MaxLog
    /\ YearOf(clock + gap) <= MaxYear
    /\ clock' = clock + gap
    /\ log' = Append(log, PxeLine(clock + gap, mac))
    /\ fresh' = FALSE
    /\ UNCHANGED <<history_file, runs, agentVars, catalogVars>>

LogTftp(gap, ip) ==
    /\ Len(log) < MaxLog
    /\ YearOf(clock + gap) <= MaxYear
    /\ clock' = clock + gap
    /\ log' = Append(log, TftpLine(clock + gap, ip))
    /\ fresh' = FALSE
    /\ UNCHANGED <<history_file, runs, agentVars, catalogVars>>

\* time passes without a log line until the next year has begun
NewYear ==
    /\ YearOf(clock) < MaxYear
    /\ clock' = (YearOf(clock) + 1) * SecondsPerYear
    /\ UNCHANGED <<log, history_file, runs, fresh, agentVars, catalogVars>>

\* parse_boot_events, line 273: history = load_boot_history()
LoadHistory(th) ==
    /\ runs[th].at = "idle"
    /\ runs' = [runs EXCEPT ![th] = [at |-> "loaded", history |-> history_file,
                                     again |-> FALSE]]
    /\ UNCHANGED <<clock, log, history_file, fresh, agentVars, catalogVars>>

\* lines 277-363: tail the log, parse the lines, update the loaded history;
\* again records that these are the lines the call before had read
ParseLog(th) ==
    /\ runs[th].at = "loaded"
    /\ runs' = [runs EXCEPT ![th] =
                  [at |-> "parsed",
                   history |-> ParsedHistory(runs[th].history, LastLines(log), clock),
                   again |-> fresh]]
    /\ fresh' = TRUE
    /\ UNCHANGED <<clock, log, history_file, agentVars, catalogVars>>

\* line 365: save_boot_history(history) rewrites the whole file
SaveHistory(th) ==
    /\ runs[th].at = "parsed"
    /\ history_file' = runs[th].history
    /\ runs' = [runs EXCEPT ![th] = IdleRun]
    /\ UNCHANGED <<clock, log, fresh, agentVars, catalogVars>>

(***************************************************************************)
(* The console's image catalog (src/webui/app.py): the directories under   *)
(* /images, the active-rootfs symlink, and the write-disk endpoint with    *)
(* the download the agent makes for it.                                    *)
(***************************************************************************)
ImageNames == {<<"v", "1">>, <<"v", "2">>}

\* no name: the empty string of a request, the absent symlink
NoName == <<>>

\* what a directory /images/<name> holds: an *.img file, an *.img.gz file, a
\* rootfs-raw subdirectory
NoDir == [exists |-> FALSE, img |-> FALSE, gz |-> FALSE, rootfs |-> FALSE]

DirContents == [exists : {TRUE}, img : BOOLEAN, gz : BOOLEAN, rootfs : BOOLEAN]

\* extract_rootfs: only creates the destination directory
extract_rootfs(dir) == [dir EXCEPT !.rootfs = TRUE]

\* upload_image of <name>.img or <name>.img.gz; gunzip refuses to replace an
\* existing <name>.img and may fail on a damaged file, and check=True then
\* ends the request before extract_rootfs
upload_image(name, ext, gunzip_ok) ==
    /\ ext = "img.gz" /\ gunzip_ok => ~images[name].img
    /\ LET made == [images[name] EXCEPT !.exists = TRUE]
           saved == IF ext = "img" THEN [made EXCEPT !.img = TRUE]
                                   ELSE [made EXCEPT !.gz = TRUE]
       IN  images' = [images EXCEPT ![name] =
                        IF ext = "img" THEN extract_rootfs(saved)
                        ELSE IF gunzip_ok
                             THEN extract_rootfs([saved EXCEPT !.gz = FALSE, !.img = TRUE])
                             ELSE saved]
    /\ UNCHANGED <<active_link, act, wd, agentVars, consoleVars>>

\* import_local_image of a directory (cp -r of whatever it holds) into a name
\* not yet taken
import_local_image(name, dir) ==
    /\ ~images[name].exists
    /\ images' = [images EXCEPT ![name] = dir]
    /\ UNCHANGED <<active_link, act, wd, agentVars, consoleVars>>

\* was: the image that was active when the request began
IdleActivate == [at |-> "idle", name |-> NoName, status |-> 0, was |-> NoName]

\* the names an activate request may carry, a missing or empty name among them
ActivateNames == ImageNames \cup {NoName}

Answer(th, name, status) ==
    act' = [act EXCEPT ![th] = [at |-> "idle", name |-> name, status |-> status,
                                was |-> NoName]]

\* the old symlink removed before the target is looked at
activate_image_unlinkfirst(th, name) ==
    /\ act[th].at = "idle"
    /\ active_link' = NoName
    /\ IF name = NoName THEN Answer(th, name, 400)
       ELSE IF ~images[name].rootfs THEN Answer(th, name, 404)
       ELSE act' = [act EXCEPT ![th] = [at |-> "testlink", name |-> name, status |-> 0,
                                        was |-> active_link]]
    /\ UNCHANGED <<images, wd, agentVars, consoleVars>>

\* activate_image up to its try block: the name, then target.exists()
activate_image(th, name) ==
    /\ act[th].at = "idle"
    /\ IF name = NoName THEN Answer(th, name, 400)
       ELSE IF ~images[name].rootfs THEN Answer(th, name, 404)
       ELSE act' = [act EXCEPT ![th] = [at |-> "testlink", name |-> name, status |-> 0,
                                        was |-> active_link]]
    /\ UNCHANGED <<images, active_link, wd, agentVars, consoleVars>>

\* ACTIVE_LINK.exists() or ACTIVE_LINK.is_symlink()
TestLink(th) ==
    /\ act[th].at = "testlink"
    /\ act' = [act EXCEPT ![th].at = IF active_link # NoName THEN "unlink" ELSE "symlink"]
    /\ UNCHANGED <<images, active_link, wd, agentVars, consoleVars>>

\* ACTIVE_LINK.unlink(); FileNotFoundError when the link is gone meanwhile
Unlink(th) ==
    /\ act[th].at = "unlink"
    /\ IF active_link = NoName
       THEN Answer(th, act[th].name, 500) /\ UNCHANGED active_link
       ELSE active_link' = NoName /\ act' = [act EXCEPT ![th].at = "symlink"]
    /\ UNCHANGED <<images, wd, agentVars, consoleVars>>

\* ACTIVE_LINK.symlink_to(target); FileExistsError when a link is there meanwhile
SymlinkTo(th) ==
    /\ act[th].at = "symlink"
    /\ IF active_link # NoName
       THEN Answer(th, act[th].name, 500) /\ UNCHANGED active_link
       ELSE active_link' = act[th].name /\ Answer(th, act[th].name, 200)
    /\ UNCHANGED <<images, wd, agentVars, consoleVars>>

\* "http://10.10.200.75:38434/api/images/download/" followed by the image name
DownloadPrefix ==
    <<"h","t","t","p",":","/","/">> \o DottedQuad(<<10, 10, 200, 75>>) \o <<":">>
    \o DecStr(38434)
    \o <<"/","a","p","i","/","i","m","a","g","e","s","/","d","o","w","n","l","o","a","d","/">>

ConsoleUrl(image_name) == DownloadPrefix \o image_name

NoWrite == [at |-> "none", image_name |-> NoName, image_url |-> <<>>,
            cmd |-> None, served |-> None]

\* the directories write_to_disk may take the image from: the active one when
\* the symlink resolves, else any directory with an *.img file
WriteCandidates ==
    IF active_link # NoName /\ images[active_link].rootfs
    THEN {n \in {active_link} : images[n].img}
    ELSE {n \in ImageNames : images[n].exists /\ images[n].img}

\* write_to_disk up to its POST to the agent
write_to_disk ==
    /\ wd.at # "posted"
    /\ IF WriteCandidates = {}
       THEN wd' = [NoWrite EXCEPT !.at = "refused"]
       ELSE \E n \in WriteCandidates :
              wd' = [NoWrite EXCEPT !.at = "posted", !.image_name = n,
                                    !.image_url = ConsoleUrl(n)]
    /\ UNCHANGED <<images, active_link, act, agentVars, consoleVars>>

\* what download_image sends for a directory: the *.img.gz file if there is
\* one, else the *.img file, else 404
download_image(dir) == IF ~dir.exists THEN "404"
                       ELSE IF dir.gz THEN "img.gz"
                       ELSE IF dir.img THEN "img"
                       ELSE "404"

\* the agent runs the command it builds from the posted image_url, and curl
\* fetches that URL from download_image
FetchImage ==
    /\ wd.at = "posted"
    /\ wd' = [wd EXCEPT !.at = "fetched",
                        !.cmd = WriteCmd(wd.image_url),
                        !.served = download_image(images[wd.image_name])]
    /\ UNCHANGED <<images, active_link, act, agentVars, consoleVars>>

(***************************************************************************)
(* Specifications.                                                         *)
(***************************************************************************)
Init ==
    /\ config = DefaultConfig
    /\ write_progress = InitialProgress
    /\ pc = "serve"
    /\ req = NoRequest
    /\ sent = <<>>
    /\ procs = <<>>
    /\ connected = FALSE
    /\ backlog = NoPoll
    /\ clock = StartClock
    /\ log = <<>>
    /\ history_file = EmptyHistory
    /\ runs = [th \in Threads |-> IdleRun]
    /\ fresh = FALSE
    /\ images = [n \in ImageNames |-> NoDir]
    /\ active_link = NoName
    /\ act = [th \in Threads |-> IdleActivate]
    /\ wd = NoWrite

NextAgent ==
    \/ \E r \in OtherRequests : DoGet(r)
    \/ \E r \in OtherRequests : DoPostOther(r)
    \/ Poll
    \/ \E r \in OtherRequests : ServeWaiting(r)
    \/ \E r \in WriteRequests : WriteImage(r)
    \/ HangUp
    \/ StepWipe
    \/ RunWipefs
    \/ RunDdZero
    \/ RunPartprobe
    \/ RunBlockdev
    \/ RunSyncPt
    \/ StepWrite
    \/ RunDd
    \/ RunSync
    \/ Respond

\* the console with the requests that run parse_boot_events handled by the
\* threads of T
NextConsole(T) ==
    \/ \E gap \in Gaps, mac \in Macs : LogPxe(gap, mac)
    \/ \E gap \in Gaps, ip \in Ips : LogTftp(gap, ip)
    \/ NewYear
    \/ \E th \in T : LoadHistory(th)
    \/ \E th \in T : ParseLog(th)
    \/ \E th \in T : SaveHistory(th)

\* the agent's two checks at the head of handle_write_image, for the callers
\* and allow-lists above
NextAcl == \E r \in AclRequests : WriteImage(r)

\* the catalog with the activate requests handled by the threads of T
NextCatalog(T) ==
    \/ \E n \in ImageNames, ext \in {"img", "img.gz"}, ok \in BOOLEAN :
          upload_image(n, ext, ok)
    \/ \E n \in ImageNames, dir \in DirContents : import_local_image(n, dir)
    \/ \E th \in T, n \in ActivateNames : activate_image(th, n)
    \/ \E th \in T : TestLink(th)
    \/ \E th \in T : Unlink(th)
    \/ \E th \in T : SymlinkTo(th)
    \/ write_to_disk
    \/ FetchImage

Next == NextAgent \/ NextConsole(Threads) \/ NextCatalog(Threads)

\* the agent alone, the console's state left as it starts
Spec == Init /\ [][NextAgent]_vars

\* the console's boot history with one request at a time, the agent left as it
\* starts
SpecBoot == Init /\ [][NextConsole({1})]_vars

InitAcl ==
    /\ config \in AclConfigs
    /\ write_progress = InitialProgress
    /\ pc = "serve"
    /\ req = NoRequest
    /\ sent = <<>>
    /\ procs = <<>>
    /\ connected = FALSE
    /\ backlog = NoPoll
    /\ clock = StartClock
    /\ log = <<>>
    /\ history_file = EmptyHistory
    /\ runs = [th \in Threads |-> IdleRun]
    /\ fresh = FALSE
    /\ images = [n \in ImageNames |-> NoDir]
    /\ active_link = NoName
    /\ act = [th \in Threads |-> IdleActivate]
    /\ wd = NoWrite

\* the agent started with any of the allow-lists and asked by any of the callers
SpecAcl == InitAcl /\ [][NextAcl]_vars

\* the console's catalog with one activate request at a time
SpecCatalog == Init /\ [][NextCatalog({1})]_vars

\* the console's catalog with activate requests overlapping
SpecCatalogThreads == Init /\ [][NextCatalog(Threads)]_vars

\* the console's boot history with requests overlapping
SpecBootThreads == Init /\ [][NextConsole(Threads)]_vars

(***************************************************************************)
(* Properties of the agent.                                                *)
(***************************************************************************)
IsWrite(r) == r.method = "POST" /\ r.path = "/write-image"

Authorized(r) == validate_ip(r.client_ip) /\ r.token = config.shared_secret

FixedDevices == {"/dev/mmcblk0", "/dev/mmcblk1", "/dev/nvme0n1", "/dev/sda"}

\* the request carries a device value and it is none of the four allowed paths
BadDevice(r) == /\ r.body.kind = "dict"
                /\ r.body.device.t # "absent"
                /\ \/ r.body.device.t # "str"
                   \/ r.body.device.v \notin FixedDevices

\* the request has a JSON object with a non-empty image_url string and a device
\* that is allowed (or none, which means the default device)
WellFormed(r) == /\ r.body.kind = "dict"
                 /\ r.body.image_url.t = "str"
                 /\ r.body.image_url.v # <<>>
                 /\ ~BadDevice(r)

Statuses == [i \in 1..Len(sent) |-> sent[i].status]

\* C1: a write request from an address the allow-list does not accept, or with a
\* missing or wrong X-Netboot-Token, is answered 403 and no subprocess is run
\* for it.
C1_UnauthorizedRejected ==
    (IsWrite(req) /\ ~Authorized(req)) => (Statuses = <<403>> /\ procs = <<>>)

C1_Witness ==
    /\ IsWrite(req) /\ validate_ip(req.client_ip) /\ req.token = "wrong-token"
    /\ WellFormed(req)
    /\ Statuses = <<403>>
    /\ write_progress.stage = "complete"

\* C2: an authorized write request whose device value is none of /dev/mmcblk0,
\* /dev/mmcblk1, /dev/nvme0n1, /dev/sda is answered 400 and no subprocess is run
\* for it.
C2_BadDeviceRejected ==
    (IsWrite(req) /\ Authorized(req) /\ BadDevice(req))
        => (Statuses = <<400>> /\ procs = <<>>)

C2_Witness ==
    /\ IsWrite(req) /\ Authorized(req) /\ BadDevice(req)
    /\ req.body.device = JsonStr("/dev/sdb")
    /\ req.body.image_url = JsonStr(GzUrl)
    /\ Statuses = <<400>>

\* C3: the step that takes in a validated write request leaves the progress
\* record at stage wiping, percent 0, error cleared, whatever it held before.
C3_ResetOnNewWrite ==
    [][(pc = "serve" /\ IsWrite(req') /\ Authorized(req') /\ WellFormed(req'))
          => /\ write_progress'.stage = "wiping"
             /\ write_progress'.percent = 0
             /\ write_progress'.error = None
             /\ pc' = "wipe"]_vars

C3_Witness ==
    /\ pc = "wipe" /\ IsWrite(req) /\ WellFormed(req)
    /\ write_progress.stage = "wiping" /\ write_progress.percent = 0
    /\ write_progress.error = None

\* C4: inside one write attempt (after its reset) every update that does not
\* enter the error stage leaves percent at least as high as it was; the error
\* stage sets it to 0.
C4_PercentMonotonic ==
    [][(pc # "serve")
          => /\ write_progress'.stage # "error"
                  => write_progress'.percent >= write_progress.percent
             /\ write_progress'.stage = "error" => write_progress'.percent = 0]_vars

C4_Witness ==
    /\ pc = "sync" /\ write_progress.stage = "syncing" /\ write_progress.percent = 95

WriteCmds == {"curl | gunzip | dd", "curl | dd"}

Last(seq) == seq[Len(seq)]

\* the subprocesses of the request all succeeded: wipefs, the partition re-read,
\* the download and dd, and the final sync
AllSucceeded ==
    /\ Len(procs) >= 4
    /\ procs[1] = [cmd |-> "wipefs", outcome |-> "ok"]
    /\ procs[Len(procs) - 1].cmd \in WriteCmds
    /\ procs[Len(procs) - 1].outcome = "ok"
    /\ Last(procs) = [cmd |-> "sync", outcome |-> "ok"]

\* C5: once an authorized, well-formed write request whose wipe, download+dd and
\* sync all succeeded has been handled, the progress record is complete/100 and
\* the one response is 200 with success true.
C5_SuccessCompletes ==
    (pc = "serve" /\ IsWrite(req) /\ Authorized(req) /\ WellFormed(req) /\ AllSucceeded)
        => /\ write_progress.stage = "complete"
           /\ write_progress.percent = 100
           /\ Len(sent) = 1
           /\ sent[1].status = 200
           /\ sent[1].body = SuccessBody

\* C6: when the download+dd command of a write attempt times out, the handler
\* answers with status 504 and leaves the progress record at stage error with
\* error text 'Timeout after 10 minutes'.
C6_TimeoutAnswered ==
    (pc = "serve" /\ procs # <<>> /\ Last(procs).cmd \in WriteCmds
        /\ Last(procs).outcome = "timeout")
        => /\ Statuses = <<504>>
           /\ write_progress.stage = "error"
           /\ write_progress.percent = 0
           /\ write_progress.error = "Timeout after 10 minutes"

C6_Witness ==
    /\ pc = "serve" /\ procs # <<>>
    /\ Last(procs) = [cmd |-> "curl | gunzip | dd", outcome |-> "timeout"]
    /\ Statuses = <<504>>
    /\ write_progress.error = "Timeout after 10 minutes"

\* the body is not valid JSON, or it holds no non-empty image_url
Malformed(r) == \/ r.body.kind \in {"badjson", "nondict"}
                \/ /\ r.body.kind = "dict"
                   /\ \/ r.body.image_url.t \in {"absent", "null"}
                      \/ r.body.image_url = JsonStr(<<>>)

\* C7: the step that handles an authorized write request with malformed input
\* answers 400, runs no subprocess and leaves the progress record as it was.
C7_MalformedRejected ==
    [][(pc = "serve" /\ IsWrite(req') /\ Authorized(req') /\ Malformed(req'))
          => /\ Len(sent') = 1
             /\ sent'[1].status = 400
             /\ procs' = <<>>
             /\ write_progress' = write_progress]_vars

Rank(stage) == CASE stage = "idle" -> 0
                 [] stage = "wiping" -> 1
                 [] stage = "writing" -> 2
                 [] stage = "syncing" -> 3
                 [] stage = "complete" -> 4
                 [] stage = "error" -> 5

\* C8: a step that changes the stage moves it forward along idle, wiping,
\* writing, syncing, complete, or to error, or is the reset to wiping made when a
\* new write request is taken in.
C8_StageForward ==
    [][write_progress'.stage # write_progress.stage
          => \/ /\ write_progress.stage # "error"
                /\ write_progress'.stage # "error"
                /\ Rank(write_progress'.stage) > Rank(write_progress.stage)
             \/ write_progress'.stage = "error"
             \/ /\ write_progress'.stage = "wiping"
                /\ pc = "serve" /\ pc' = "wipe" /\ IsWrite(req')]_vars

C8_Witness ==
    /\ pc = "respond" /\ write_progress.stage = "complete"
    /\ Len(procs) >= 4

\* C9: in the progress record, and in every body GET /status returns, error is
\* non-null only when stage is error.
C9_ErrorOnlyInErrorStage ==
    /\ write_progress.error # None => write_progress.stage = "error"
    /\ \A i \in 1..Len(sent) :
          (sent[i].body.kind = "status" /\ sent[i].body.error # None)
              => sent[i].body.stage = "error"

C9_Witness ==
    /\ req.method = "GET" /\ req.path = "/status"
    /\ Len(sent) = 1
    /\ sent[1].body.kind = "status"
    /\ sent[1].body.stage = "error"
    /\ sent[1].body.error = DdStderr

(***************************************************************************)
(* Properties of the console's boot history.                               *)
(***************************************************************************)
\* the largest number of PXE events of mac in lines that lie pairwise more than
\* 120 seconds apart by the time they were logged at (the lines are in time
\* order, so taking every event that is far enough from the last one taken is
\* optimal); taken says whether an event has been taken, last is its time
RECURSIVE SpacedBoots(_, _, _, _)
SpacedBoots(lines, mac, taken, last) ==
    IF lines = <<>> THEN 0
    ELSE LET l == Head(lines) IN
         IF l.kind = "pxe" /\ l.mac = mac /\ (~taken \/ l.at - last > 120)
         THEN 1 + SpacedBoots(Tail(lines), mac, TRUE, l.at)
         ELSE SpacedBoots(Tail(lines), mac, taken, last)

\* C10: boot_count advances at most once per 120-second window: of two PXE events
\* of one address logged 120 seconds or less apart at most one advances it, and no
\* event advances it twice, over any number of runs.  Hence the stored boot_count
\* of an address never exceeds the number of its PXE events that lie pairwise more
\* than 120 seconds apart.
C10_OncePerWindow ==
    \A mac \in Macs :
        history_file[mac].present
            => history_file[mac].boot_count <= SpacedBoots(log, mac, FALSE, 0)

PxeIndexes(mac) == {i \in 1..Len(log) : log[i].kind = "pxe" /\ log[i].mac = mac}
TftpIndexes == {i \in 1..Len(log) : log[i].kind = "tftp"}

\* by the timestamps the two lines carry, transfer k is 0 to 30 seconds after
\* PXE event i
InWindow(i, k) == /\ 0 <= log[k].stamp - log[i].stamp
                  /\ log[k].stamp - log[i].stamp <= 30

\* C11: a transfer whose timestamp is 31 or more seconds after a PXE event, or
\* before it, never supplies the last_ip of that event's address: a stored
\* last_ip is always the address of a transfer that lies 0 to 30 seconds after
\* some PXE event of that hardware address.
C11_LastIpWithinWindow ==
    \A mac \in Macs :
        (history_file[mac].present /\ history_file[mac].last_ip # None)
            => \E i \in PxeIndexes(mac), k \in TftpIndexes :
                  /\ log[k].ip = history_file[mac].last_ip
                  /\ InWindow(i, k)

\* an address whose PXE event is followed by the log's only transfer 31 seconds
\* later, and that is stored without a last_ip
C11_Witness ==
    \E mac \in Macs :
        /\ history_file[mac].present /\ history_file[mac].last_ip = None
        /\ Len(log) = 3
        /\ log[1].kind = "pxe" /\ log[1].mac = mac
        /\ log[2].kind = "pxe" /\ log[2].mac = mac
        /\ log[3].kind = "tftp"
        /\ log[3].stamp - log[1].stamp = 31

C13_MissingImageNotActivated ==
    [][\A th \in Threads, n \in ImageNames :
          (act[th].at = "idle" /\ act'[th] # act[th] /\ act'[th].name = n
           /\ ~images[n].rootfs)
              => /\ act'[th].at = "idle" /\ act'[th].status = 404
                 /\ active_link' = active_link
                 /\ images' = images]_vars

\* a 404 answered while another image is active
C13_Witness ==
    \E th \in Threads :
        /\ act[th].at = "idle" /\ act[th].status = 404
        /\ active_link # NoName /\ active_link # act[th].name
        /\ ~images[act[th].name].rootfs

\* C15: when the download made for a write started through write-disk is served
\* an .img.gz file, the agent's command pipes it through gunzip.
C15_CompressedIsDecompressed ==
    (wd.at = "fetched" /\ wd.served = "img.gz") => wd.cmd = "curl | gunzip | dd"

WipeCmds == {"wipefs", "dd_zero", "partprobe", "blockdev", "sync_pt"}

\* the primary wipe tool was missing or exited non-zero in this attempt
WipefsFailed == \E i \in 1..Len(procs) :
                    procs[i].cmd = "wipefs" /\ procs[i].outcome \in {"nonzero", "notfound"}

\* the attempt has ended without reaching the writing stage: the request is
\* over and its last subprocess is one of the wiping stage (an image_url that
\* is a string makes every attempt that reaches the writing stage run dd)
AbortedInWiping == /\ pc = "serve" /\ procs # <<>>
                   /\ req.body.image_url.t = "str"
                   /\ Last(procs).cmd \in WipeCmds

\* after a failed wipefs the next subprocess is the zero-fill fallback
FallbackRun ==
    \A i \in 1..Len(procs) :
        (procs[i].cmd = "wipefs" /\ procs[i].outcome \in {"nonzero", "notfound"})
            => \/ i = Len(procs) /\ pc = "ddzero"
               \/ i < Len(procs) /\ procs[i + 1].cmd = "dd_zero"

\* C14 (as claimed): after a missing or failing wipefs the fallback is run, and
\* an attempt is aborted during wiping only when the zero-fill fallback itself
\* fails.
C14_AbortOnlyOnFallbackFailure ==
    /\ FallbackRun
    /\ AbortedInWiping => Last(procs).cmd = "dd_zero"

\* C14 (amended): after a missing or failing wipefs the fallback is run and its
\* exit code is ignored; an attempt is aborted during wiping only when wipefs
\* or the fallback times out or when the last-resort sync of the partition
\* re-read chain times out or is missing; otherwise it goes on to the writing
\* stage.
C14_WipeAbortCauses ==
    /\ FallbackRun
    /\ AbortedInWiping =>
          \/ Last(procs).cmd \in {"wipefs", "dd_zero"} /\ Last(procs).outcome = "timeout"
          \/ Last(procs).cmd = "sync_pt" /\ Last(procs).outcome \in {"timeout", "notfound"}
    /\ (pc = "serve" /\ procs # <<>> /\ ~AbortedInWiping /\ req.body.image_url.t = "str")
          => \E i \in 1..Len(procs) : procs[i].cmd \in WriteCmds

\* wipefs missing, the fallback exiting non-zero, and the attempt in the
\* writing stage
C14_Witness ==
    /\ Len(procs) >= 2
    /\ procs[1].cmd = "wipefs" /\ procs[1].outcome = "notfound"
    /\ procs[2].cmd = "dd_zero" /\ procs[2].outcome = "nonzero"
    /\ pc = "dd" /\ write_progress.stage = "writing"

\* C17: a GET /status sent while a write is in flight is answered with the
\* stage and percent of that write in progress (wiping, writing or syncing).
C17_StatusDuringWrite ==
    backlog.at = "answered" => backlog.stage \in {"wiping", "writing", "syncing"}

\* a status poll sent during a write is only ever answered after the write,
\* with its final stage
StatusAfterWrite ==
    backlog.at = "answered" => backlog.stage \in {"complete", "error"}

\* C18: a request that is read-only or rejected (GET /health, GET /status, an
\* unknown path, POST /write-image answered 403 or 400) leaves the four fields
\* of the progress record unchanged.
C18_RejectedLeavesProgress ==
    [][(/\ pc = "serve"
        /\ \/ req'.method = "GET"
           \/ req'.path # "/write-image"
           \/ Len(sent') = 1 /\ sent'[1].status \in {400, 403})
          => write_progress' = write_progress]_vars

\* a request rejected with 403 after a write has completed, the record still
\* showing that write
C18_Witness ==
    /\ pc = "serve" /\ IsWrite(req)
    /\ Len(sent) = 1 /\ sent[1].status = 403
    /\ write_progress.stage = "complete" /\ write_progress.percent = 100

\* C19: once the record is complete/100 it stays so until the next validated
\* write request resets it to wiping/0; no later step of the same attempt
\* turns it into error.
C19_CompleteStays ==
    [][(write_progress.stage = "complete" /\ write_progress.percent = 100)
          => \/ write_progress' = write_progress
             \/ /\ pc = "serve" /\ pc' = "wipe"
                /\ write_progress'.stage = "wiping" /\ write_progress'.percent = 0]_vars

\* the bits of octet k that a prefix of length len covers
PrefixBits(len, k) == IF len >= 8 * k THEN 8
                      ELSE IF len <= 8 * (k - 1) THEN 0
                      ELSE len - 8 * (k - 1)

RECURSIVE Pow2(_)
Pow2(n) == IF n = 0 THEN 1 ELSE 2 * Pow2(n - 1)

\* address o lies inside the network net/len
InNetwork(o, net, len) ==
    \A k \in 1..4 : o[k] \div Pow2(8 - PrefixBits(len, k))
                    = net[k] \div Pow2(8 - PrefixBits(len, k))

\* the caller equals an exact entry of the allow-list or lies inside the
\* network of one of its CIDR entries
Allowed(o) ==
    \E i \in 1..Len(config.allowed_ips), e \in AclEntries :
        /\ EntryText(e) = config.allowed_ips[i]
        /\ IF e.cidr THEN InNetwork(o, e.octets, e.len) ELSE o = e.octets

\* C16: validate_ip accepts a caller if and only if it equals an exact entry or
\* lies inside the network of a CIDR entry: a write request gets the 403 for an
\* unauthorized IP exactly when its caller is not allowed.
C16_ValidateIpIsCidr ==
    \A o \in AclCallers :
        (IsWrite(req) /\ req.client_ip = DottedQuad(o) /\ Len(sent) = 1)
            => (sent[1].body = ErrorBody("Unauthorized IP") <=> ~Allowed(o))

\* C20: a parse_boot_events call over the log lines that the call before it
\* had read saves the history as it was: boot_count, last_boot and last_ip of
\* every hardware address are unchanged.
C20_ParseIdempotent ==
    [][\A th \in Threads :
          (runs[th].at = "parsed" /\ runs[th].again /\ runs'[th].at = "idle")
              => history_file' = history_file]_vars

\* C21: the persisted boot_count of a hardware address never decreases, in
\* any interleaving of the requests that run parse_boot_events while the log
\* grows.
C21_BootCountMonotonic ==
    [][\A mac \in Macs :
          history_file'[mac].boot_count >= history_file[mac].boot_count]_vars

\* the step ends the activate request of thread th with an error response
EndsInError(th) == /\ act'[th] # act[th]
                   /\ act'[th].at = "idle"
                   /\ act'[th].status \in {404, 500}

\* C22: an activate request that ends with 404 or 500 does not leave the
\* symlink missing: when an image was active as the request began, an image is
\* active as the request is answered, also when activate requests overlap.
C22_FailedActivationKeepsLink ==
    [][\A th \in Threads :
          (EndsInError(th) /\ act[th].at # "idle" /\ act[th].was # NoName)
              => active_link' # NoName]_vars

====
